---- MODULE Spec2Model ----
(***************************************************************************)
(* Session bootstrap of the ETP application (src/app.py).                  *)
(*                                                                         *)
(* The script is executed from top to bottom for every page load and for   *)
(* every widget interaction.  The browser keeps the address (fragment and  *)
(* query), the server keeps one session store per page load.  A rerun      *)
(* request carries the query the browser address held when the request     *)
(* was made.                                                               *)
(***************************************************************************)
EXTENDS Integers, FiniteSets, Sequences, TLC

VARIABLES
    hash,           \* access_token carried by the address fragment, or NoTok
    address,        \* access_token carried by the address query, or NoTok
    relay,          \* fragment relay script of this page: "unloaded", "loaded", "ran"
    session_state,  \* st.session_state: a dict, DOMAIN = the keys present
    pendingReq,     \* the rerun request waiting to be served
    pc,             \* position of the running script: "idle", "main", "verify",
                    \* "commit1", "commit2", "route", "login", "app"
    query_params,   \* query of the running script (st.experimental_get_query_params)
    ev,             \* widget event the running script was started for
    lateFrag,       \* token of a provider redirect whose fragment has not reached the
                    \* page yet, NoTok when there is none
    relayNavs,      \* per fragment token: navigations made by the relay script since
                    \* the provider last redirected to the app
    user_json,      \* main(): the answer of obter_user_supabase, once it has returned
    view,           \* view on screen: "none", "login", "auth", "expired", "error"
    lastVerify,     \* the last call of obter_user_supabase made on its own: token,
                    \* provider answer, requests sent, value returned
    syncRets,       \* per e-mail key: the rows that calls of sincronizar_usuario returned
    alerts,         \* messages (st.error, st.warning, st.success) on screen
    configOk,       \* SUPABASE_URL and SUPABASE_KEY are both set in the environment
    verifyCalls,    \* calls of obter_user_supabase per token, in this browser session
    syncCalls,      \* calls of sincronizar_usuario, in this browser session
    storeUp,        \* the usuarios table answers (sincronizar_usuario would not raise)
    boot,           \* what the callback handling of the running script did
    hadSession,     \* the running script started with "usuario" in the store
    sessionCred,    \* where the Session Record in the store came from
    usuarios,       \* table usuarios: number of rows per e-mail
    afterSignOut,   \* "Sair" was handled and the execution after it has not finished
    stores,         \* two browser sessions side by side: the store of each
    runs,           \* two browser sessions side by side: the execution of each
    actor,          \* two browser sessions side by side: the one that took the last step
    etapas,         \* table etapas: per (projeto_id, numero) the texts of its rows
    saves,          \* per execution: where its call of salvar_etapa stands
    lastSave,       \* per (projeto_id, numero): the text of the call that ended last
    saveCount,      \* calls of salvar_etapa started
    uploader,       \* st.file_uploader of one stage: the files it holds
    arquivos,       \* table arquivos: number of rows per file of that stage
    uploadsOf,      \* per file: how often the user put it into the uploader
    uploadRuns      \* executions of the stage page

vars == <<hash, address, relay, session_state, pendingReq, pc, query_params, ev,
          view, verifyCalls, syncCalls, storeUp, boot, hadSession, sessionCred,
          usuarios, afterSignOut, user_json, relayNavs, lateFrag, configOk, alerts,
          syncRets, lastVerify, stores, runs, actor, etapas, saves, lastSave, saveCount,
          uploader, arquivos, uploadsOf, uploadRuns>>

\* the variables of the specifications that look at one function or at two
\* browser sessions; the script of the single session leaves them alone
isoVars == <<stores, runs, actor>>
etapaVars == <<etapas, saves, lastSave, saveCount>>
uploadVars == <<uploader, arquivos, uploadsOf, uploadRuns>>
sideVars == <<isoVars, etapaVars, uploadVars>>

(***************************************************************************)
(* Bounds and value sets                                                   *)
(***************************************************************************)
MaxCalls == 3

\* sincronizar_usuario is called at most MaxSync times
MaxSync == 3

\* the relay script navigates at most MaxNavs times for one redirect
MaxNavs == 2

\* salvar_etapa is called at most MaxSaves times
MaxSaves == 3

\* the stage page is executed at most MaxRuns times
MaxRuns == 4

NoTok == "none"
AddrTokens == {"", "tok-1", "tok-2"}
PwTokens == {"pw-1"}
AllTokens == AddrTokens \cup PwTokens

\* answers of GET /auth/v1/user: 200 with id and email, 200 without id,
\* 200 with an empty object, a non-200 status, an exception (timeout, bad body)
Replies == {"200", "200_noid", "200_empty", "200_badjson", "401", "exception"}

\* answers of supabase.auth.sign_in_with_password
SignInOutcomes == {"exception", "no_session"} \cup PwTokens

\* answers of supabase.auth.sign_up
SignUpOutcomes == {"exception", "no_user", "user"}

\* the messages of the module level check, _require_session, criar_projeto
\* and tela_login_ou_cadastro
Messages == {"config", "sessao_expirada", "nao_autenticado", "dados_usuario",
             "falha_login", "erro_autenticar", "conta_criada", "erro_criar_conta",
             "erro_cadastrar"}

Widgets == {"none", "Entrar", "Cadastrar", "Sair", "Criar", "Widget"}

(***************************************************************************)
(* Python values                                                           *)
(***************************************************************************)
EmptyDict == [k \in {} |-> ""]
None == [some |-> FALSE, val |-> EmptyDict]
Some(v) == [some |-> TRUE, val |-> v]
Truthy(r) == r.some /\ DOMAIN r.val # {}
Get(d, k) == IF k \in DOMAIN d THEN d[k] ELSE "None"

Emails == {"a@x.com", "b@x.com"}

\* values of the email column: an address, the empty string, NULL
EmailKeys == Emails \cup {"", "None"}

\* a row of usuarios: the value of its email column and its rank among the
\* rows with that value
Rows == EmailKeys \X (0..(MaxSync + 1))
SubjectOf(tok) == IF tok \in {"tok-1", "pw-1"} THEN "uid-1" ELSE "uid-2"
EmailOf(tok) == IF tok \in {"tok-1", "pw-1"} THEN "a@x.com" ELSE "b@x.com"

UserJson(tok, reply) ==
    CASE reply = "200" -> [id |-> SubjectOf(tok), email |-> EmailOf(tok)]
      [] reply = "200_noid" -> [email |-> EmailOf(tok)]
      [] OTHER -> EmptyDict

\* obter_user_supabase: None for an empty token, for a status other than 200
\* and for an exception; the body of the 200 answer otherwise
\* variant of obter_user_supabase: the body of the answer is returned whatever
\* the status
obter_user_supabase_AnyStatus(access_token, reply) ==
    IF access_token = "" \/ reply \in {"exception", "200_badjson"} THEN None
    ELSE IF reply = "401" THEN Some([msg |-> "invalid JWT"])
    ELSE Some(UserJson(access_token, reply))

obter_user_supabase(access_token, reply) ==
    IF access_token = "" THEN None
    ELSE IF reply \in {"200", "200_noid", "200_empty"}
         THEN Some(UserJson(access_token, reply))
         ELSE None

\* obter_user_supabase: the requests.get calls of one call (no loop, no retry)
ProviderRequests(access_token) == IF access_token = "" THEN 0 ELSE 1

\* variant: the store is asked for another key than the one that is written
HasUsuario_WrongKey(ss) == "user" \in DOMAIN ss

\* "usuario" in st.session_state
HasUsuario(ss) == "usuario" \in DOMAIN ss

\* variant: the Session Record is written without its access_token
WriteSession_NoToken(ss, json, token) ==
    [k \in DOMAIN ss \cup {"usuario", "auth_user_id"} |->
        CASE k = "usuario" -> json
          [] k = "auth_user_id" -> Get(json, "id")
          [] OTHER -> ss[k]]

\* the three assignments that write the Session Record
WriteSession(ss, json, token) ==
    [k \in DOMAIN ss \cup {"usuario", "auth_user_id", "access_token"} |->
        CASE k = "usuario" -> json
          [] k = "auth_user_id" -> Get(json, "id")
          [] k = "access_token" -> token
          [] OTHER -> ss[k]]

\* variant: only the token is removed on sign-out
ClearStore_TokenOnly(ss) == [k \in DOMAIN ss \ {"access_token"} |-> ss[k]]

\* st.session_state.clear()
ClearStore(ss) == EmptyDict

\* variant: the query is left as it was
set_query_params_Keep(q) == q

\* st.experimental_set_query_params() without arguments: the query it leaves,
\* in the context of the script and in the address of the browser
experimental_set_query_params(q) == NoTok

Req(q, e) == [some |-> TRUE, query |-> q, ev |-> e]
NoReq == [some |-> FALSE, query |-> NoTok, ev |-> "none"]

\* st.rerun(): the script is run again with the query of its context; a
\* request of the browser that is already waiting is served instead
\* variant: st.rerun() is left out
Rerun_Never(pending, q) == pending

Rerun(pending, q) == IF pending.some THEN pending ELSE Req(q, "none")

NoBoot == [tok |-> NoTok, outcome |-> "none"]
NoCred == [via |-> "none", tok |-> NoTok]
Sessions == {"A", "B"}

\* (projeto_id, numero) of the stages saved, and the texts saved
EtapaKeys == {<<1, 1>>, <<1, 2>>}
Textos == {"t1", "t2"}
\* names of the files the user may upload
Files == {"a.pdf", "b.pdf"}
NoSave == [pc |-> "idle", key |-> <<1, 1>>, texto |-> "t1", existe |-> FALSE]
NoRun == [pc |-> "idle", query |-> NoTok, ev |-> "none", json |-> None]
NoVerify == [tok |-> NoTok, reply |-> "none", requests |-> 0, ret |-> None]
ZeroCalls == [t \in AllTokens |-> 0]

SideInit ==
    /\ stores = [x \in Sessions |-> EmptyDict]
    /\ runs = [x \in Sessions |-> NoRun]
    /\ actor = "none"
    /\ etapas = [k \in EtapaKeys |-> <<>>]
    /\ saves = [x \in Sessions |-> NoSave]
    /\ lastSave = [k \in EtapaKeys |-> "none"]
    /\ saveCount = 0
    /\ uploader = {}
    /\ arquivos = [f \in Files |-> 0]
    /\ uploadsOf = [f \in Files |-> 0]
    /\ uploadRuns = 0

TypeOK ==
    /\ hash \in AddrTokens \cup {NoTok}
    /\ address \in AddrTokens \cup {NoTok}
    /\ relay \in {"unloaded", "loaded", "ran"}
    /\ DOMAIN session_state \subseteq {"usuario", "auth_user_id", "access_token"}
    /\ pendingReq.some \in BOOLEAN
    /\ pc \in {"idle", "main", "verify", "commit1", "commit2", "route", "login", "app"}
    /\ user_json.some \in BOOLEAN
    /\ relayNavs \in [AddrTokens -> 0..MaxNavs]
    /\ lateFrag \in AddrTokens \cup {NoTok}
    /\ query_params \in AddrTokens \cup {NoTok}
    /\ ev \in Widgets
    /\ view \in {"none", "login", "auth", "expired", "error"}
    /\ configOk \in BOOLEAN
    /\ alerts \subseteq Messages
    /\ \A t \in AllTokens : verifyCalls[t] \in 0..MaxCalls
    /\ syncCalls \in Nat
    /\ storeUp \in BOOLEAN
    /\ usuarios \in [EmailKeys -> Nat]
    /\ syncRets \in [EmailKeys -> SUBSET Rows]
    /\ lastVerify.tok \in AllTokens \cup {NoTok}
    /\ lastVerify.reply \in Replies \cup {"none"}
    /\ lastVerify.requests \in 0..1
    /\ lastVerify.ret.some \in BOOLEAN
    /\ DOMAIN stores = Sessions
    /\ \A x \in Sessions : runs[x].pc \in {"idle", "main", "write", "route"}
    /\ actor \in Sessions \cup {"none"}
    /\ \A k \in EtapaKeys : etapas[k] \in Seq(Textos) /\ lastSave[k] \in Textos \cup {"none"}
    /\ \A x \in Sessions : saves[x].pc \in {"idle", "select", "write"}
    /\ saveCount \in 0..MaxSaves
    /\ uploader \subseteq Files
    /\ arquivos \in [Files -> 0..MaxRuns]
    /\ uploadsOf \in [Files -> 0..MaxRuns]
    /\ uploadRuns \in 0..MaxRuns

Init ==
    /\ hash = NoTok
    /\ address = NoTok
    /\ relay = "unloaded"
    /\ session_state = EmptyDict
    /\ pendingReq = Req(NoTok, "none")
    /\ pc = "idle"
    /\ query_params = NoTok
    /\ ev = "none"
    /\ user_json = None
    /\ view = "none"
    /\ verifyCalls = ZeroCalls
    /\ syncCalls = 0
    /\ storeUp = TRUE
    /\ boot = NoBoot
    /\ hadSession = FALSE
    /\ sessionCred = NoCred
    /\ usuarios = [e \in EmailKeys |-> 0]
    /\ syncRets = [e \in EmailKeys |-> {}]
    /\ lastVerify = NoVerify
    /\ SideInit
    /\ afterSignOut = FALSE
    /\ relayNavs = [c \in AddrTokens |-> 0]
    /\ lateFrag = NoTok
    /\ configOk \in BOOLEAN
    /\ alerts = {}

(***************************************************************************)
(* Browser                                                                 *)
(***************************************************************************)
\* a page load: a new browser session with an empty store, whose first run
\* is requested with the query of the address
NewSession(q) ==
    /\ session_state' = EmptyDict
    /\ pendingReq' = Req(q, "none")
    /\ pc' = "idle"
    /\ query_params' = NoTok
    /\ ev' = "none"
    /\ user_json' = None
    /\ view' = "none"
    /\ alerts' = {}
    /\ relay' = "unloaded"
    /\ verifyCalls' = ZeroCalls
    /\ syncCalls' = 0
    /\ boot' = NoBoot
    /\ hadSession' = FALSE
    /\ sessionCred' = NoCred
    /\ afterSignOut' = FALSE

\* the identity provider redirects back to the app with the token in the fragment
ProviderRedirect(c) ==
    /\ \/ hash' = c /\ lateFrag' = NoTok
       \/ hash' = NoTok /\ lateFrag' = c
    /\ address' = NoTok
    /\ relayNavs' = [t \in AddrTokens |-> 0]
    /\ NewSession(NoTok)
    /\ UNCHANGED <<storeUp, usuarios, configOk>>
    /\ UNCHANGED <<syncRets, lastVerify>>
    /\ UNCHANGED sideVars

\* the redirect completes after the page has rendered: the fragment appears in
\* the address without a page load
FragmentArrives ==
    /\ lateFrag # NoTok
    /\ hash' = lateFrag
    /\ lateFrag' = NoTok
    /\ UNCHANGED <<address, relay, session_state, pendingReq, pc, query_params, ev, view,
                   verifyCalls, syncCalls, storeUp, boot, hadSession, sessionCred,
                   usuarios, afterSignOut, user_json, relayNavs, configOk>>
    /\ UNCHANGED <<alerts, syncRets, lastVerify>>
    /\ UNCHANGED sideVars

\* the user reloads the page
Reload ==
    /\ NewSession(address)
    /\ UNCHANGED <<hash, address, storeUp, usuarios>>
    /\ UNCHANGED <<relayNavs, lateFrag, configOk, syncRets, lastVerify>>
    /\ UNCHANGED sideVars

\* variant: the rewritten address keeps the fragment
RelayHash_Keep(h) == h

\* the fragment of base + "?" + qs, the address the relay script puts in place
RelayHash(h) == NoTok

\* the relay script, run once when its frame has loaded
RelayScript ==
    /\ relay = "loaded"
    /\ IF hash # NoTok
       THEN /\ relayNavs[hash] < MaxNavs
            /\ relayNavs' = [relayNavs EXCEPT ![hash] = @ + 1]
            /\ address' = hash
            /\ hash' = RelayHash(hash)
            /\ NewSession(hash)
            /\ UNCHANGED <<storeUp, usuarios, lateFrag, configOk, syncRets,
                           lastVerify>>
       ELSE /\ relay' = "ran"
            /\ UNCHANGED <<hash, address, session_state, pendingReq, pc, query_params,
                           ev, view, verifyCalls, syncCalls, storeUp, boot, hadSession,
                           sessionCred, usuarios, afterSignOut, user_json, relayNavs,
                           lateFrag, configOk, alerts, syncRets, lastVerify>>
    /\ UNCHANGED sideVars

WidgetsOf(v) ==
    CASE v = "login" -> {"Entrar", "Cadastrar", "Widget"}
      [] v = "auth" -> {"Sair", "Criar", "Widget"}
      [] OTHER -> {}

\* the user operates a widget of the view on screen
Interact(e) ==
    /\ ~pendingReq.some
    /\ e \in WidgetsOf(view)
    /\ pendingReq' = Req(address, e)
    /\ UNCHANGED <<hash, address, relay, session_state, pc, query_params, ev, view,
                   verifyCalls, syncCalls, storeUp, boot, hadSession, sessionCred,
                   usuarios, afterSignOut>>
    /\ UNCHANGED <<user_json, relayNavs, lateFrag, configOk, alerts, syncRets, lastVerify>>
    /\ UNCHANGED sideVars

\* the usuarios table becomes unavailable or available again
StoreFlip ==
    /\ storeUp' = ~storeUp
    /\ UNCHANGED <<hash, address, relay, session_state, pendingReq, pc, query_params,
                   ev, view, verifyCalls, syncCalls, boot, hadSession, sessionCred,
                   usuarios, afterSignOut>>
    /\ UNCHANGED <<user_json, relayNavs, lateFrag, configOk, alerts, syncRets, lastVerify>>
    /\ UNCHANGED sideVars

(***************************************************************************)
(* The script                                                              *)
(***************************************************************************)
\* the script starts: module level code, which emits the relay component
\* variant: the script goes on without the configuration
ConfigMissing_Never(ok) == FALSE

\* module level: `if not SUPABASE_URL or not SUPABASE_KEY`
ConfigMissing(ok) == ~ok

StartRun ==
    /\ pc = "idle"
    /\ pendingReq.some
    /\ query_params' = pendingReq.query
    /\ ev' = pendingReq.ev
    /\ pendingReq' = NoReq
    /\ boot' = NoBoot
    /\ user_json' = None
    /\ hadSession' = HasUsuario(session_state)
    /\ IF ConfigMissing(configOk)
       THEN \* st.error and st.stop(): the run ends here, its only element is the error
            /\ pc' = "idle"
            /\ view' = "error"
            /\ alerts' = {"config"}
            /\ relay' = "unloaded"
       ELSE /\ pc' = "main"
            /\ alerts' = {}
            /\ relay' = IF relay = "unloaded" THEN "loaded" ELSE relay
            /\ UNCHANGED view
    /\ UNCHANGED <<hash, address, session_state, verifyCalls, syncCalls, storeUp,
                   sessionCred, usuarios, afterSignOut, relayNavs, lateFrag, configOk>>
    /\ UNCHANGED <<syncRets, lastVerify>>
    /\ UNCHANGED sideVars

\* the environment of the app gains or loses SUPABASE_URL / SUPABASE_KEY
Reconfigure ==
    /\ configOk' = ~configOk
    /\ UNCHANGED <<hash, address, relay, session_state, pendingReq, pc, query_params,
                   ev, view, verifyCalls, syncCalls, storeUp, boot, hadSession,
                   sessionCred, usuarios, afterSignOut, user_json, relayNavs, lateFrag>>
    /\ UNCHANGED <<alerts, syncRets, lastVerify>>
    /\ UNCHANGED sideVars

\* variant: the token is verified whether or not a user is in the store
NeedsBootstrap_NoSessionCheck(ss, q) == q # NoTok

\* main(): the condition under which the callback token is verified
NeedsBootstrap(ss, q) == ~HasUsuario(ss) /\ q # NoTok

\* main(): handling of the callback (?access_token=...)
MainBootstrap ==
    /\ pc = "main"
    /\ IF NeedsBootstrap(session_state, query_params)
       THEN LET token == query_params
            IN  /\ verifyCalls[token] < MaxCalls
                /\ verifyCalls' = [verifyCalls EXCEPT ![token] = @ + 1]
                /\ boot' = [tok |-> token, outcome |-> "calling"]
                /\ pc' = "verify"
       ELSE /\ boot' = [tok |-> query_params, outcome |-> "skipped"]
            /\ pc' = "route"
            /\ UNCHANGED verifyCalls
    /\ UNCHANGED <<hash, address, relay, session_state, pendingReq, query_params, ev,
                   view, syncCalls, storeUp, hadSession, sessionCred, usuarios,
                   afterSignOut, user_json>>
    /\ UNCHANGED <<relayNavs, lateFrag, configOk, alerts, syncRets, lastVerify>>
    /\ UNCHANGED sideVars

\* main(): obter_user_supabase(token) returns
VerifyReturns ==
    /\ pc = "verify"
    /\ \E reply \in Replies :
         /\ user_json' = obter_user_supabase(boot.tok, reply)
         /\ IF Truthy(user_json')
            THEN /\ boot' = [boot EXCEPT !.outcome = "ok"]
                 /\ pc' = "commit1"
            ELSE /\ boot' = [boot EXCEPT !.outcome = "failed"]
                 /\ pc' = "route"
    /\ UNCHANGED <<hash, address, relay, session_state, pendingReq, query_params, ev,
                   view, verifyCalls, syncCalls, storeUp, hadSession, sessionCred,
                   usuarios, afterSignOut>>
    /\ UNCHANGED <<relayNavs, lateFrag, configOk, alerts, syncRets, lastVerify>>
    /\ UNCHANGED sideVars

\* variant: the query is cleared before the Session Record is written
CommitOrder_ScrubFirst == <<"scrub", "write">>

\* main(), `if user_json:` -- the Session Record is written, then the query is
\* cleared
CommitOrder == <<"write", "scrub">>

\* main(): the i-th of the two steps taken when the token was verified
MainCommit(i) ==
    /\ pc = IF i = 1 THEN "commit1" ELSE "commit2"
    /\ pc' = IF i = 1 THEN "commit2" ELSE "route"
    /\ IF CommitOrder[i] = "write"
       THEN /\ session_state' = WriteSession(session_state, user_json.val, boot.tok)
            /\ sessionCred' = [via |-> "callback", tok |-> boot.tok]
            /\ UNCHANGED <<query_params, address>>
       ELSE /\ query_params' = experimental_set_query_params(query_params)
            /\ address' = experimental_set_query_params(address)
            /\ UNCHANGED <<session_state, sessionCred>>
    /\ UNCHANGED <<hash, relay, pendingReq, ev, view, verifyCalls, syncCalls, storeUp,
                   boot, hadSession, usuarios, afterSignOut, user_json>>
    /\ UNCHANGED <<relayNavs, lateFrag, configOk, alerts, syncRets, lastVerify>>
    /\ UNCHANGED sideVars

\* variant: the session is judged by the user id instead of the token
SessionExpired_ByUserId(ss) == Get(ss, "auth_user_id") \in {"None", ""}

\* _require_session(): there is no usable access_token in the store
SessionExpired(ss) == Get(ss, "access_token") \in {"None", ""}

\* variant: the view is chosen by the user id instead of the "usuario" key
RouteView_ByUserId(ss) == IF Get(ss, "auth_user_id") # "None" THEN "auth" ELSE "login"

\* main(): the view chosen from the store
RouteView(ss) == IF HasUsuario(ss) THEN "auth" ELSE "login"

\* main(): login view or, after _require_session(), the authenticated view
MainRoute ==
    /\ pc = "route"
    /\ IF RouteView(session_state) = "login"
       THEN /\ view' = "login"
            /\ pc' = "login"
            /\ UNCHANGED <<session_state, address, query_params, pendingReq, sessionCred,
                           afterSignOut, alerts>>
       ELSE IF SessionExpired(session_state)
            THEN /\ view' = "expired"
                 /\ alerts' = alerts \cup {"sessao_expirada"}
                 /\ session_state' = ClearStore(session_state)
                 /\ address' = experimental_set_query_params(address)
                 /\ query_params' = experimental_set_query_params(query_params)
                 /\ pendingReq' = Rerun(pendingReq, NoTok)
                 /\ pc' = "idle"
                 /\ sessionCred' = NoCred
                 /\ afterSignOut' = FALSE
            ELSE /\ view' = "auth"
                 /\ pc' = "app"
                 /\ UNCHANGED <<session_state, address, query_params, pendingReq,
                                sessionCred, afterSignOut, alerts>>
    /\ UNCHANGED <<hash, relay, ev, verifyCalls, syncCalls, storeUp, boot, hadSession,
                   usuarios>>
    /\ UNCHANGED <<user_json, relayNavs, lateFrag, configOk, syncRets, lastVerify>>
    /\ UNCHANGED sideVars

\* obter_usuario_por_email: the row of the e-mail, if any
obter_usuario_por_email(table, email) ==
    IF email \in {"", "None"} THEN FALSE ELSE table[email] > 0

\* criar_usuario: one more row for the e-mail
criar_usuario(table, email) == [table EXCEPT ![email] = @ + 1]

\* sincronizar_usuario: the table after the call and the row returned
\* (<<"None", 0>> stands for None)
sincronizar_usuario(table, identity) ==
    LET email == Get(identity, "email")
        existente == IF email \in {"", "None"} THEN FALSE
                     ELSE obter_usuario_por_email(table, email)
    IN  IF DOMAIN identity = {} THEN [table |-> table, ret |-> <<"None", 0>>]
        ELSE IF existente
             THEN [table |-> table, ret |-> <<email, 1>>]
             ELSE [table |-> criar_usuario(table, email),
                   ret |-> <<email, table[email] + 1>>]

\* tela_login_ou_cadastro(), "Cadastrar": after a sign-up that returned a user,
\* the local row is created unless one exists; an exception of the table is
\* caught and reported
Cadastrar(table, res, email_cad, up) ==
    IF res = "user" /\ up /\ ~obter_usuario_por_email(table, email_cad)
    THEN criar_usuario(table, email_cad)
    ELSE table

\* tela_login_ou_cadastro, "Entrar": the message shown, if any
EntrarAlerts(res, login_json) ==
    CASE res = "exception" -> {"erro_autenticar"}
      [] res = "no_session" -> {"falha_login"}
      [] OTHER -> IF Truthy(login_json) THEN {} ELSE {"dados_usuario"}

\* tela_login_ou_cadastro, "Cadastrar": the message shown
CadastrarAlerts(res, up) ==
    CASE res = "exception" -> {"erro_cadastrar"}
      [] res = "no_user" -> {"erro_criar_conta"}
      [] OTHER -> IF up THEN {"conta_criada"} ELSE {"erro_cadastrar"}

\* tela_login_ou_cadastro(): the buttons "Entrar" (e-mail and password) and
\* "Cadastrar"
TelaLogin ==
    /\ pc = "login"
    /\ pc' = "idle"
    /\ afterSignOut' = FALSE
    /\ IF ev = "Entrar"
       THEN \E res \in SignInOutcomes :
              IF res \in PwTokens
              THEN \E reply \in Replies :
                     LET token == res
                         login_json == obter_user_supabase(token, reply)
                     IN  /\ verifyCalls[token] < MaxCalls
                         /\ verifyCalls' = [verifyCalls EXCEPT ![token] = @ + 1]
                         /\ alerts' = alerts \cup EntrarAlerts(res, login_json)
                         /\ IF Truthy(login_json)
                            THEN /\ session_state' =
                                      WriteSession(session_state, login_json.val, token)
                                 /\ query_params' = experimental_set_query_params(query_params)
                                 /\ address' = experimental_set_query_params(address)
                                 /\ pendingReq' = Rerun(pendingReq, NoTok)
                                 /\ sessionCred' = [via |-> "password", tok |-> token]
                            ELSE UNCHANGED <<session_state, query_params, address,
                                             pendingReq, sessionCred>>
              ELSE /\ alerts' = alerts \cup EntrarAlerts(res, None)
                   /\ UNCHANGED <<session_state, query_params, address, pendingReq,
                                  sessionCred, verifyCalls>>
       ELSE UNCHANGED <<session_state, query_params, address, pendingReq, sessionCred,
                        verifyCalls>>
    /\ IF ev = "Cadastrar"
       THEN \E res \in SignUpOutcomes, email_cad \in Emails :
              /\ usuarios' = Cadastrar(usuarios, res, email_cad, storeUp)
              /\ alerts' = alerts \cup CadastrarAlerts(res, storeUp)
       ELSE UNCHANGED usuarios
    /\ ev \notin {"Entrar", "Cadastrar"} => UNCHANGED alerts
    /\ UNCHANGED <<hash, relay, ev, view, syncCalls, storeUp, boot, hadSession>>
    /\ UNCHANGED <<user_json, relayNavs, lateFrag, configOk, syncRets, lastVerify>>
    /\ UNCHANGED sideVars

\* main(): the authenticated view; "Sair" signs out, creating or deleting a
\* project reruns the script
\* criar_projeto: `user_id = st.session_state.get("auth_user_id")` is truthy;
\* otherwise "Usuário não autenticado." and st.stop()
HasUserId(ss) == Get(ss, "auth_user_id") \notin {"None", ""}

AppView ==
    /\ pc = "app"
    /\ pc' = "idle"
    /\ IF ev = "Sair"
       THEN /\ session_state' = ClearStore(session_state)
            /\ query_params' = experimental_set_query_params(query_params)
            /\ address' = experimental_set_query_params(address)
            /\ pendingReq' = Rerun(pendingReq, NoTok)
            /\ sessionCred' = NoCred
            /\ afterSignOut' = TRUE
            /\ UNCHANGED alerts
       ELSE /\ pendingReq' = IF ev = "Criar" /\ HasUserId(session_state)
                             THEN Rerun(pendingReq, query_params)
                             ELSE pendingReq
            /\ alerts' = IF ev = "Criar" /\ ~HasUserId(session_state)
                         THEN alerts \cup {"nao_autenticado"}
                         ELSE alerts
            /\ afterSignOut' = FALSE
            /\ UNCHANGED <<session_state, query_params, address, sessionCred>>
    /\ UNCHANGED <<hash, relay, ev, view, verifyCalls, syncCalls, storeUp, boot,
                   hadSession, usuarios>>
    /\ UNCHANGED <<user_json, relayNavs, lateFrag, configOk, syncRets, lastVerify>>
    /\ UNCHANGED sideVars

Next ==
    \/ \E c \in AddrTokens : ProviderRedirect(c)
    \/ Reload
    \/ RelayScript
    \/ \E e \in Widgets : Interact(e)
    \/ StoreFlip
    \/ FragmentArrives
    \/ Reconfigure
    \/ StartRun
    \/ MainBootstrap
    \/ VerifyReturns
    \/ \E i \in {1, 2} : MainCommit(i)
    \/ MainRoute
    \/ TelaLogin
    \/ AppView

Spec == Init /\ [][Next]_vars

(***************************************************************************)
(* sincronizar_usuario on its own: the function is defined but main() and  *)
(* tela_login_ou_cadastro() never call it, so its calls are driven here    *)
(***************************************************************************)
\* identities handed to sincronizar_usuario: an empty answer, with an e-mail,
\* with an empty e-mail, without e-mail
SyncInputs ==
    {EmptyDict} \cup {[id |-> "uid-1", email |-> e] : e \in Emails \cup {""}}
                \cup {[id |-> "uid-1"]}

InitCalls ==
    /\ hash = NoTok
    /\ address = NoTok
    /\ relay = "unloaded"
    /\ session_state = EmptyDict
    /\ pendingReq = NoReq
    /\ pc = "idle"
    /\ query_params = NoTok
    /\ ev = "none"
    /\ user_json = None
    /\ view = "none"
    /\ verifyCalls = ZeroCalls
    /\ syncCalls = 0
    /\ storeUp = TRUE
    /\ boot = NoBoot
    /\ hadSession = FALSE
    /\ sessionCred = NoCred
    /\ afterSignOut = FALSE
    /\ relayNavs = [c \in AddrTokens |-> 0]
    /\ lateFrag = NoTok
    /\ configOk = TRUE
    /\ alerts = {}
    /\ usuarios \in {t \in [EmailKeys -> {0, 1}] : t[""] = 0 /\ t["None"] = 0}
    /\ syncRets = [e \in EmailKeys |-> {}]
    /\ lastVerify = NoVerify
    /\ SideInit

\* one call of sincronizar_usuario(identity); with the table unavailable the
\* call raises and nothing is returned
SyncCall(identity) ==
    /\ syncCalls < MaxSync
    /\ syncCalls' = syncCalls + 1
    /\ IF storeUp /\ DOMAIN identity # {}
       THEN LET r == sincronizar_usuario(usuarios, identity)
            IN  /\ usuarios' = r.table
                /\ syncRets' = [syncRets EXCEPT ![Get(identity, "email")] = @ \cup {r.ret}]
       ELSE UNCHANGED <<usuarios, syncRets>>
    /\ UNCHANGED <<hash, address, relay, session_state, pendingReq, pc, query_params,
                   ev, view, verifyCalls, storeUp, boot, hadSession, sessionCred,
                   afterSignOut, user_json, relayNavs, lateFrag, configOk, alerts>>
    /\ UNCHANGED <<lastVerify>>
    /\ UNCHANGED sideVars

NextSync ==
    \/ \E identity \in SyncInputs : SyncCall(identity)
    \/ StoreFlip

SpecSync == InitCalls /\ [][NextSync]_vars

(***************************************************************************)
(* obter_user_supabase on its own, over every token and provider answer    *)
(***************************************************************************)
\* one call of obter_user_supabase(token) that the provider answers with reply
VerifierCall(token, reply) ==
    /\ verifyCalls[token] < MaxCalls
    /\ verifyCalls' = [verifyCalls EXCEPT ![token] = @ + 1]
    /\ lastVerify' = [tok |-> token,
                      reply |-> IF ProviderRequests(token) = 0 THEN "none" ELSE reply,
                      requests |-> ProviderRequests(token),
                      ret |-> obter_user_supabase(token, reply)]
    /\ UNCHANGED <<hash, address, relay, session_state, pendingReq, pc, query_params,
                   ev, view, syncCalls, storeUp, boot, hadSession, sessionCred, usuarios,
                   afterSignOut, user_json, relayNavs, lateFrag, configOk, alerts,
                   syncRets>>
    /\ UNCHANGED sideVars

NextVerify == \E token \in AllTokens, reply \in Replies : VerifierCall(token, reply)

SpecVerify == InitCalls /\ [][NextVerify]_vars

(***************************************************************************)
(* Two browser sessions of the same deployment, each executing the script  *)
(* against its own st.session_state                                        *)
(***************************************************************************)
mainVars == <<hash, address, relay, session_state, pendingReq, pc, query_params, ev,
              view, verifyCalls, syncCalls, storeUp, boot, hadSession, sessionCred,
              usuarios, afterSignOut, user_json, relayNavs, lateFrag, configOk, alerts,
              syncRets, lastVerify>>

\* variant: every session reads and writes one store
SliceOf_Shared(x) == "A"

\* st.session_state of session x
SliceOf(x) == x

\* a rerun of session x starts, with query q and widget event e
IsoStart(x, q, e) ==
    /\ runs[x].pc = "idle"
    /\ e \in IF HasUsuario(stores[SliceOf(x)]) THEN {"none", "Sair"} ELSE {"none", "Entrar"}
    /\ runs' = [runs EXCEPT ![x] = [pc |-> "main", query |-> q, ev |-> e, json |-> None]]
    /\ actor' = x
    /\ UNCHANGED <<stores, mainVars, etapaVars, uploadVars>>

\* main() of session x: the token of the query is verified unless a user is in
\* the store
IsoBootstrap(x, reply) ==
    /\ runs[x].pc = "main"
    /\ IF NeedsBootstrap(stores[SliceOf(x)], runs[x].query)
       THEN LET json == obter_user_supabase(runs[x].query, reply)
            IN  runs' = [runs EXCEPT ![x].json = json,
                                     ![x].pc = IF Truthy(json) THEN "write" ELSE "route"]
       ELSE runs' = [runs EXCEPT ![x].pc = "route"]
    /\ actor' = x
    /\ UNCHANGED <<stores, mainVars, etapaVars, uploadVars>>

\* main() of session x: the Session Record is written
IsoWrite(x) ==
    /\ runs[x].pc = "write"
    /\ stores' = [stores EXCEPT ![SliceOf(x)] =
                      WriteSession(@, runs[x].json.val, runs[x].query)]
    /\ runs' = [runs EXCEPT ![x].pc = "route"]
    /\ actor' = x
    /\ UNCHANGED <<mainVars, etapaVars, uploadVars>>

\* main() of session x from the routing on: the login view with "Entrar", or
\* _require_session and the sidebar with "Sair"
IsoRoute(x) ==
    /\ runs[x].pc = "route"
    /\ LET st == stores[SliceOf(x)]
       IN  IF RouteView(st) = "login"
           THEN IF runs[x].ev = "Entrar"
                THEN \E res \in SignInOutcomes, reply \in Replies :
                       LET login_json == IF res \in PwTokens
                                         THEN obter_user_supabase(res, reply) ELSE None
                       IN  stores' = IF Truthy(login_json)
                                     THEN [stores EXCEPT ![SliceOf(x)] =
                                              WriteSession(@, login_json.val, res)]
                                     ELSE stores
                ELSE UNCHANGED stores
           ELSE IF SessionExpired(st) \/ runs[x].ev = "Sair"
                THEN stores' = [stores EXCEPT ![SliceOf(x)] = ClearStore(@)]
                ELSE UNCHANGED stores
    /\ runs' = [runs EXCEPT ![x].pc = "idle"]
    /\ actor' = x
    /\ UNCHANGED <<mainVars, etapaVars, uploadVars>>

\* the page of session x is loaded again: a new session with an empty store
IsoPageLoad(x) ==
    /\ stores' = [stores EXCEPT ![SliceOf(x)] = EmptyDict]
    /\ runs' = [runs EXCEPT ![x] = NoRun]
    /\ actor' = x
    /\ UNCHANGED <<mainVars, etapaVars, uploadVars>>

NextIso ==
    \E x \in Sessions :
        \/ \E q \in AddrTokens \cup {NoTok}, e \in Widgets : IsoStart(x, q, e)
        \/ \E reply \in Replies : IsoBootstrap(x, reply)
        \/ IsoWrite(x)
        \/ IsoRoute(x)
        \/ IsoPageLoad(x)

SpecIso == InitCalls /\ [][NextIso]_vars

(***************************************************************************)
(* salvar_etapa, called by two executions that may interleave              *)
(***************************************************************************)
\* "Salvar etapa" in execution x: salvar_etapa(projeto_id, numero, ..., texto)
\* is called and builds its payload
SaveStart(x, k, t) ==
    /\ saves[x].pc = "idle"
    /\ saveCount < MaxSaves
    /\ saveCount' = saveCount + 1
    /\ saves' = [saves EXCEPT ![x] = [pc |-> "select", key |-> k, texto |-> t,
                                      existe |-> FALSE]]
    /\ UNCHANGED <<etapas, lastSave, mainVars, isoVars, uploadVars>>

\* salvar_etapa: `existe = select id ... eq(projeto_id).eq(numero)`
SaveSelect(x) ==
    /\ saves[x].pc = "select"
    /\ saves' = [saves EXCEPT ![x].existe = Len(etapas[saves[x].key]) > 0,
                              ![x].pc = "write"]
    /\ UNCHANGED <<etapas, lastSave, saveCount, mainVars, isoVars, uploadVars>>

\* salvar_etapa: `if existe:` update of every row of the key, else insert
SaveWrite(x) ==
    /\ saves[x].pc = "write"
    /\ LET k == saves[x].key
           t == saves[x].texto
       IN  /\ etapas' = [etapas EXCEPT ![k] =
                            IF saves[x].existe
                            THEN [i \in 1..Len(@) |-> t]
                            ELSE Append(@, t)]
           /\ lastSave' = [lastSave EXCEPT ![k] = t]
    /\ saves' = [saves EXCEPT ![x].pc = "idle"]
    /\ UNCHANGED <<saveCount, mainVars, isoVars, uploadVars>>

NextEtapa ==
    \E x \in Sessions :
        \/ \E k \in EtapaKeys, t \in Textos : SaveStart(x, k, t)
        \/ SaveSelect(x)
        \/ SaveWrite(x)

SpecEtapa == InitCalls /\ [][NextEtapa]_vars

(***************************************************************************)
(* The file uploader of a stage: every execution of the page goes through  *)
(* `if uploads:`                                                           *)
(***************************************************************************)
\* main(): `for f in uploads: salvar_arquivo(projeto_id, numero_etapa, f)`,
\* one insert per file the widget holds
SaveUploads(table, held) ==
    [f \in Files |-> IF f \in held THEN table[f] + 1 ELSE table[f]]

\* the user puts file f into the uploader; the page is executed
UploadFile(f) ==
    /\ uploadRuns < MaxRuns
    /\ f \notin uploader
    /\ uploader' = uploader \cup {f}
    /\ uploadsOf' = [uploadsOf EXCEPT ![f] = @ + 1]
    /\ arquivos' = SaveUploads(arquivos, uploader')
    /\ uploadRuns' = uploadRuns + 1
    /\ UNCHANGED <<mainVars, isoVars, etapaVars>>

\* the user takes file f out of the uploader; the page is executed
RemoveFile(f) ==
    /\ uploadRuns < MaxRuns
    /\ f \in uploader
    /\ uploader' = uploader \ {f}
    /\ arquivos' = SaveUploads(arquivos, uploader')
    /\ uploadRuns' = uploadRuns + 1
    /\ UNCHANGED <<uploadsOf, mainVars, isoVars, etapaVars>>

\* any other widget of the page is operated; the page is executed
OtherInteraction ==
    /\ uploadRuns < MaxRuns
    /\ arquivos' = SaveUploads(arquivos, uploader)
    /\ uploadRuns' = uploadRuns + 1
    /\ UNCHANGED <<uploader, uploadsOf, mainVars, isoVars, etapaVars>>

NextUpload ==
    \/ \E f \in Files : UploadFile(f)
    \/ \E f \in Files : RemoveFile(f)
    \/ OtherInteraction

SpecUpload == InitCalls /\ [][NextUpload]_vars

(***************************************************************************)
(* Steps of the script, for the properties                                 *)
(***************************************************************************)
Credentials == AddrTokens \ {""}

\* a step taken by the running script (a page load empties the screen)
ScriptStep == pc # "idle" /\ pc' # pc /\ view' # "none"
InCommit == pc \in {"commit1", "commit2"}
RouteStep == pc = "route" /\ pc' # "route" /\ view' # "none"
ScriptEnds == pc # "idle" /\ pc' = "idle" /\ view' # "none"
SignOutStep == pc = "app" /\ pc' = "idle" /\ ev = "Sair" /\ view' # "none"
PageLoadStep == view' = "none" /\ relay' = "unloaded"
NoSessionRecord(ss) == DOMAIN ss \cap {"usuario", "auth_user_id", "access_token"} = {}

\* C1: for every credential c, obter_user_supabase(c) is called at most once
\* and sincronizar_usuario at most once, however many executions of one
\* browser session observe c in the query
C1_VerifiedAtMostOnce ==
    /\ \A c \in Credentials : verifyCalls[c] <= 1
    /\ syncCalls <= 1

\* C2: while the Session Record written from the callback credential c exists,
\* c is in neither the query nor the fragment of the browser address, and the
\* execution that wrote the record ends with an empty query
C2_CredentialAbsentOnceEstablished ==
    /\ (sessionCred.via = "callback" /\ ~InCommit) =>
          /\ address # sessionCred.tok
          /\ hash # sessionCred.tok
    /\ (boot.outcome = "ok" /\ ~InCommit) => (query_params = NoTok /\ address = NoTok)

C2_Witness ==
    /\ sessionCred.via = "callback"
    /\ sessionCred.tok \in Credentials
    /\ hadSession
    /\ pc = "idle"
    /\ view = "auth"

\* C3: an execution in which the verification of the query credential failed
\* ends with no Session Record in the store and with the login view rendered
C3_FailedVerificationLeavesNoSession ==
    [][(ScriptEnds /\ boot.outcome = "failed") =>
          (NoSessionRecord(session_state') /\ view' = "login")]_vars

\* C4: after an execution in which the verification of credential c failed,
\* c is no longer in the query of the address
C4_FailedCredentialDiscarded ==
    (pc = "idle" /\ boot.outcome = "failed") => address # boot.tok

\* C5: a Session Record written from a callback credential is written after
\* sincronizar_usuario has been called
C5_SyncBeforeSessionRecord ==
    sessionCred.via = "callback" => syncCalls >= 1

\* C6: when the callback credential is verified while the usuarios table is
\* unavailable (the synchronizer fails), no Session Record is written
C6_SyncFailureLeavesNoSession ==
    [][(InCommit /\ ScriptStep /\ ~storeUp) => NoSessionRecord(session_state')]_vars

\* C7: an execution that starts with a Session Record calls neither
\* obter_user_supabase nor sincronizar_usuario, whatever its query holds, and
\* changes the store only when it signs out
C7_ShortCircuitWhenEstablished ==
    [][(ScriptStep /\ hadSession) =>
          /\ verifyCalls' = verifyCalls
          /\ syncCalls' = syncCalls
          /\ (session_state' = session_state \/ SignOutStep)]_vars

C7_Witness ==
    /\ pc = "route"
    /\ hadSession
    /\ boot.outcome = "skipped"
    /\ boot.tok \in Credentials
    /\ HasUsuario(session_state)

\* C8: with a Session Record in the store, every execution renders the
\* authenticated view, and the record stays until "Sair" or a new page load
C8_SessionPersists ==
    [][/\ (RouteStep /\ HasUsuario(session_state)) => view' = "auth"
       /\ (HasUsuario(session_state) /\ ~HasUsuario(session_state')) =>
             (SignOutStep \/ PageLoadStep)]_vars

C8_Witness ==
    /\ pc = "app"
    /\ view = "auth"
    /\ hadSession
    /\ ev = "Widget"

\* C9: routing renders the authenticated view exactly when "usuario" is in
\* the store and the login view otherwise, and leaves the store unchanged
C9_RoutingIsFunctionOfStore ==
    [][RouteStep =>
          /\ view' = (IF HasUsuario(session_state) THEN "auth" ELSE "login")
          /\ session_state' = session_state]_vars

C9_Witness ==
    /\ pc = "login"
    /\ view = "login"
    /\ boot.outcome = "failed"
    /\ ~HasUsuario(session_state)

\* C10: "Sair" removes the Session Record and leaves no credential in the
\* address; the execution after it verifies nothing and renders the login view
C10_SignOut ==
    [][/\ afterSignOut' => (NoSessionRecord(session_state') /\ address' = NoTok)
       /\ (afterSignOut /\ ScriptStep) => verifyCalls' = verifyCalls
       /\ (afterSignOut /\ RouteStep) => view' = "login"]_vars

C10_Witness ==
    /\ afterSignOut
    /\ pc = "login"
    /\ view = "login"
    /\ NoSessionRecord(session_state)

\* C11: the execution that verifies tok-1 successfully calls the verifier once,
\* and an execution that observes tok-1 in its query after that (its rerun was
\* requested before the address was scrubbed) does not call it: one call in all
C11_BackToBackVerifiesOnce ==
    [][/\ (pc = "main" /\ pc' = "verify") =>
             verifyCalls'[boot'.tok] = verifyCalls[boot'.tok] + 1
       /\ (pc # "main" /\ ScriptStep /\ boot.outcome \in {"calling", "ok"}) =>
             verifyCalls' = verifyCalls
       /\ (pc = "main" /\ ScriptStep /\ sessionCred.via = "callback"
             /\ query_params = sessionCred.tok) =>
             (verifyCalls' = verifyCalls /\ boot'.outcome = "skipped")]_vars

C11_Witness ==
    /\ pc = "route"
    /\ boot = [tok |-> "tok-1", outcome |-> "skipped"]
    /\ sessionCred = [via |-> "callback", tok |-> "tok-1"]
    /\ verifyCalls["tok-1"] >= 1

\* keys of the store other than the three of the Session Record: a Bootstrap
\* Attempt Marker would be one of them
MarkerKeys(ss) == DOMAIN ss \ {"usuario", "auth_user_id", "access_token"}

\* C12: while the call of obter_user_supabase for the query credential is
\* outstanding, the store holds a Bootstrap Attempt Marker, and no execution
\* ends with a marker left in the store
C12_MarkerGuardsVerifier ==
    /\ pc = "verify" => MarkerKeys(session_state) # {}
    /\ pc = "idle" => MarkerKeys(session_state) = {}

\* a navigation made by the relay script (replaceState and reload)
RelayNavigates == \E c \in AddrTokens : relayNavs'[c] > relayNavs[c]

\* C13: the relay script navigates only when the fragment holds a token, the
\* address it navigates to has no fragment token, it navigates at most once
\* for a token the provider delivered, and when it ends without navigating
\* the fragment holds no token and the address stays as it is, whatever the
\* verification of the token gave
C13_RelayNeverLoops ==
    [][/\ RelayNavigates => (hash \in AddrTokens /\ hash' = NoTok /\ address' = hash)
       /\ \A c \in AddrTokens : relayNavs'[c] <= 1
       /\ (relay = "loaded" /\ relay' = "ran") =>
             (hash = NoTok /\ hash' = NoTok /\ address' = address /\ ~RelayNavigates)]_vars

C13_Witness ==
    /\ relayNavs["tok-1"] = 1
    /\ relay = "ran"
    /\ hash = NoTok
    /\ address = "tok-1"
    /\ boot = [tok |-> "tok-1", outcome |-> "failed"]
    /\ pc = "idle"

\* C14: a token that is in the fragment of the address is still to be handled
\* by the relay script: the script has not ended for this page, also when the
\* token arrived after the page rendered
C14_LateFragmentRelayed ==
    hash # NoTok => relay # "ran"

\* the step in which a requested execution starts
StartStep == pc = "idle" /\ pendingReq.some /\ ~pendingReq'.some

\* C15: an execution that starts while SUPABASE_URL or SUPABASE_KEY is missing
\* ends at once: it shows only the error, never the login or the authenticated
\* view, calls neither the verifier nor the synchronizer, and leaves the store
\* as it was
C15_MissingConfigHalts ==
    [][(StartStep /\ ~configOk) =>
          /\ pc' = "idle"
          /\ view' = "error"
          /\ session_state' = session_state
          /\ verifyCalls' = verifyCalls
          /\ syncCalls' = syncCalls
          /\ boot' = NoBoot]_vars

C15_Witness ==
    /\ ~configOk
    /\ view = "error"
    /\ pc = "idle"
    /\ ~pendingReq.some
    /\ address = "tok-1"
    /\ verifyCalls = ZeroCalls

\* the messages that tell the user that a login failed
FailedLoginMessages == {"dados_usuario", "falha_login", "erro_autenticar"}

\* C16: an execution in which the verification of the query token failed ends
\* with the login view and a failed-login message on screen, and with an
\* address that does not make the next execution verify the same token
C16_BootstrapFailureReported ==
    [][(ScriptEnds /\ boot.outcome = "failed" /\ boot.tok \in Credentials) =>
          /\ view' = "login"
          /\ alerts' \cap FailedLoginMessages # {}
          /\ address' # boot.tok]_vars

\* C17: however often sincronizar_usuario is called with identities of one
\* e-mail (an address, the empty string or none), the usuarios table holds at
\* most one row for it and every call returned the same row
C17_SyncIdempotent ==
    \A k \in EmailKeys :
        /\ usuarios[k] <= 1
        /\ Cardinality(syncRets[k]) <= 1

\* the answers with status 200 and a body that parses
Parsed200 == {"200", "200_noid", "200_empty"}

\* C18: obter_user_supabase returns an identity only for a non-empty token
\* that the provider answered with status 200; for every other status, for an
\* exception and for the empty token it returns None; one call sends at most
\* one request, and none for the empty token
C18_VerifierFailsClosed ==
    /\ lastVerify.ret.some => (lastVerify.reply \in Parsed200 /\ lastVerify.tok # "")
    /\ (lastVerify.reply \in {"401", "exception", "none"}) => lastVerify.ret = None
    /\ lastVerify.requests <= 1
    /\ lastVerify.tok = "" => (lastVerify.requests = 0 /\ lastVerify.ret = None)

C18_Witness ==
    /\ lastVerify.tok = "tok-1"
    /\ lastVerify.reply = "401"
    /\ lastVerify.requests = 1
    /\ lastVerify.ret = None

\* C19: whenever the store holds a Session Record, its auth_user_id is a
\* subject id and its usuario has an e-mail, so criar_projeto never answers
\* "Usuário não autenticado." in the authenticated view
C19_SessionHasIdentity ==
    /\ HasUsuario(session_state) =>
          /\ HasUserId(session_state)
          /\ Get(session_state["usuario"], "email") \in Emails
    /\ "nao_autenticado" \notin alerts

\* C20: the step that removes the verified token from the address is taken
\* when the Session Record of that token is in the store, and in every state
\* of an execution that verified its token the token is still in the address
\* or the Session Record exists
C20_ScrubAfterSessionRecord ==
    [][/\ (InCommit /\ ScriptStep /\ address' # address) =>
             /\ HasUsuario(session_state)
             /\ session_state["access_token"] = boot.tok
             /\ address = boot.tok
             /\ address' = NoTok
       /\ boot'.outcome = "ok" =>
             (address' = boot'.tok \/ HasUsuario(session_state'))]_vars

C20_Witness ==
    /\ pc = "commit2"
    /\ boot = [tok |-> "tok-1", outcome |-> "ok"]
    /\ HasUsuario(session_state)
    /\ session_state["access_token"] = "tok-1"
    /\ address = "tok-1"
    /\ query_params = "tok-1"

\* C21: a step of one browser session (establishing, using or ending its
\* session, or loading its page) leaves the store of the other browser
\* session as it was, whatever the interleaving of their executions
C21_SessionsIsolated ==
    [][\A x \in Sessions : actor' # x => stores'[x] = stores[x]]_vars

C21_Witness ==
    /\ actor = "A"
    /\ runs["A"] = [pc |-> "idle", query |-> NoTok, ev |-> "Sair", json |-> None]
    /\ stores["A"] = EmptyDict
    /\ runs["B"].pc = "route"
    /\ HasUsuario(stores["B"])
    /\ stores["B"]["access_token"] = "tok-2"

\* C22: the etapas table holds at most one row per (projeto_id, numero), and
\* once no call of salvar_etapa is under way the row of a saved key carries
\* the text of the call that ended last
C22_EtapaUpsert ==
    \A k \in EtapaKeys :
        /\ Len(etapas[k]) <= 1
        /\ ((\A x \in Sessions : saves[x].pc = "idle") /\ lastSave[k] # "none") =>
              etapas[k] = <<lastSave[k]>>

SessionKeys == {"usuario", "auth_user_id", "access_token"}

\* C23: when no execution is under way the store holds all three keys of the
\* Session Record or none of them, and a stored access_token is not empty;
\* the routing never takes the "session expired" branch of _require_session
C23_SessionRecordWhole ==
    /\ pc = "idle" =>
          \/ NoSessionRecord(session_state)
          \/ /\ SessionKeys \subseteq DOMAIN session_state
             /\ session_state["access_token"] \notin {"", "None"}
    /\ view # "expired"
    /\ "sessao_expirada" \notin alerts

C23_Witness ==
    /\ pc = "idle"
    /\ view = "auth"
    /\ sessionCred.via = "password"
    /\ SessionKeys \subseteq DOMAIN session_state
    /\ session_state["access_token"] = "pw-1"
    /\ verifyCalls["tok-1"] >= 1

\* the step in which tela_login_ou_cadastro handles "Entrar"
EntrarStep == pc = "login" /\ pc' = "idle" /\ ev = "Entrar" /\ view' # "none"

\* C24: an "Entrar" that fails (exception, no session in the answer, no user
\* data) shows its message and leaves the store without Session Record and
\* the address and the pending request as they were; an "Entrar" that succeeds
\* writes the whole Session Record with the token of the sign-in, empties the
\* address query and requests a rerun, and the routing of a session
\* established by password renders the authenticated view
C24_PasswordSignIn ==
    [][/\ (EntrarStep /\ alerts' \cap FailedLoginMessages # {}) =>
             /\ NoSessionRecord(session_state')
             /\ session_state' = session_state
             /\ address' = address
             /\ pendingReq' = pendingReq
       /\ (EntrarStep /\ alerts' \cap FailedLoginMessages = {}) =>
             /\ SessionKeys \subseteq DOMAIN session_state'
             /\ session_state'["access_token"] \in PwTokens
             /\ address' = NoTok
             /\ pendingReq'.some
       /\ (RouteStep /\ sessionCred.via = "password") => view' = "auth"]_vars

C24_Witness ==
    /\ pc = "app"
    /\ view = "auth"
    /\ ev = "none"
    /\ sessionCred.via = "password"
    /\ address = NoTok
    /\ query_params = NoTok
    /\ session_state["access_token"] = "pw-1"

\* C25: the arquivos table holds, for every file, at most as many rows as the
\* number of times the user put the file into the uploader: a file uploaded
\* once is recorded at most once, however often the page is executed
C25_UploadRecordedOnce ==
    \A f \in Files : arquivos[f] <= uploadsOf[f]
====
